---- MODULE Spec2Model ----
(***************************************************************************)
(* FloatChat dashboard (frontend/src/App.jsx) and its Advanced Queries     *)
(* panel (components/AdvancedQueries.jsx) as a state machine.              *)
(*                                                                         *)
(* The React state of the dashboard is the state of the model.  A handler  *)
(* runs atomically from its entry to its first await and from one await to *)
(* the next (JavaScript runs a task to completion); each such piece is one *)
(* action.  A text is a sequence of characters.  The long string literals  *)
(* of the source are abbreviated to texts of one word each; the             *)
(* literal 'not available' that decides the escalation is kept in full.    *)
(* A message id (Date.now() + Math.random()) is modelled as a fresh number.*)
(***************************************************************************)
EXTENDS Integers, Sequences, FiniteSets, TLC

\* Bound of the model: the message ids a behaviour may use.  An operation of the
\* user that adds a message, and an answer of the backend that leads to one, is
\* taken only while an id is left; the steps of the program itself never wait.
MaxIds == 3

\* Program constant: the session history keeps the last 10 user messages.
MaxHistory == 10

----------------------------------------------------------------------------
(* Texts *)

Sp == " "

\* The needle of result.response.includes('not available').
NotAvailable == <<"n","o","t",Sp,"a","v","a","i","l","a","b","l","e">>

\* '**Searching External Sources**\n\nLet me search the web ...'
SearchingText == <<"S">>
\* '**Processing Error**\n\nI encountered an issue ...'
ProcessingErrorText == <<"P">>
\* '**Connection Error**\n\nI'm having trouble connecting ...'
ConnectionErrorText == <<"E">>
\* '**Chat Cleared**\n\nChat history has been cleared. ...'
ChatClearedText == <<"C">>

\* quickExamples: the one example query of the sidebar.
quickExamples == << <<"q">> >>

\* What the user types into the input area: a query (the text of the example
\* query); the empty input is the blank one.
InputTexts == { <<"q">> }

\* An input of nothing but whitespace.
BlankTexts == { <<Sp>> }

\* An optional value: Absent is undefined, Some(t) is the text t.
Absent == <<>>
Some(t) == <<t>>

\* Response texts a backend result can carry.
ResponseTexts == { <<"a",Sp,Sp,"b">>, NotAvailable }

\* JavaScript truthiness of an optional string: undefined and '' are falsy.
Truthy(r) == r # Absent /\ r[1] # <<>>

\* message.trim() is empty: the text holds nothing but whitespace.
IsBlank(t) == \A i \in 1..Len(t) : t[i] = Sp

\* text.includes(needle)
Includes(t, needle) ==
  \E i \in 1..(Len(t) - Len(needle) + 1) :
     SubSeq(t, i, i + Len(needle) - 1) = needle

\* text.split(' '): the words between single spaces; '' splits into [''].
RECURSIVE Split(_)
Split(t) ==
  IF \A i \in 1..Len(t) : t[i] # Sp
    THEN <<t>>
    ELSE LET k == CHOOSE i \in 1..Len(t) :
                     t[i] = Sp /\ \A j \in 1..(i-1) : t[j] # Sp
         IN  <<SubSeq(t, 1, k-1)>> \o Split(SubSeq(t, k+1, Len(t)))

\* One iteration of the reveal loop: currentText += (i > 0 ? ' ' : '') + words[i]
\* (i is the number of words already revealed).
Reveal(currentText, words, i) ==
  currentText \o (IF i > 0 THEN <<Sp>> ELSE <<>>) \o words[i+1]

----------------------------------------------------------------------------
VARIABLES
  messages,      \* useState([]): the chat, a sequence of message records
  inputMessage,  \* useState(''): the text of the input area
  isTyping,      \* useState(false)
  showSpinner,   \* useState(false)
  chatHistory,   \* useState([]): the last user messages
  nextId,        \* the next fresh message id
  calls,         \* every handleSendMessage call that passed its guard
  streams,       \* the streamResponse invocations in progress
  escTimers,     \* pending setTimeout(..., 1000) of an escalation
  cancelledAt,   \* history: <<stream id, words revealed>> when clearChat removed it
  loading,       \* AdvancedQueries: useState(false)
  queryResults,  \* AdvancedQueries: useState(null); "data" once a result was kept
  advReq,        \* AdvancedQueries: the request in flight, or <<>>
  spatialQuery,  \* AdvancedQueries: useState({latitude: 15.52, longitude: 68.25, ...})
  chatResponse,  \* the text the last answered query handed to onQuerySubmit
  uploadedFiles, \* useState([]): the files, each with the status of its upload
  uploads,       \* the handleFileUpload invocations in progress
  upTimers,      \* pending setTimeout(..., 1500) of an automatic analysis query
  systemStatus,  \* useState({profiles_count: 0, ..., advanced_query_ready: false})
  connectionStatus, \* useState({mongodb: false, minio: false, ...})
  polls,         \* the fetchSystemStatus requests in flight, by their number
  issued,        \* history: the number of fetchSystemStatus calls so far
  statusFrom,    \* history: the poll whose response was the last to be applied
  statusTimers,  \* pending setTimeout(fetchSystemStatus, 2000) of uploads
  isVisible,         \* showVisualizationPanel, the isVisible of the panel
  vizLoading,        \* GeospatialVisualizations: useState(false), loading
  visualizationData, \* GeospatialVisualizations: useState(null)
  selectedParameter, \* GeospatialVisualizations: useState('temperature')
  selectedFloats,    \* GeospatialVisualizations: useState([])
  vizReqs,           \* GeospatialVisualizations: the requests in flight
  clicked            \* history: the last call of handleFloatSelection, its
                     \* floatId and the selection it found

vars == << messages, inputMessage, isTyping, showSpinner, chatHistory, nextId,
           calls, streams, escTimers, cancelledAt, loading, queryResults,
           advReq, spatialQuery, chatResponse, uploadedFiles, uploads,
           upTimers, systemStatus, connectionStatus, polls, issued, statusFrom,
           statusTimers, isVisible, vizLoading, visualizationData,
           selectedParameter, selectedFloats, vizReqs, clicked >>

chatVars == << messages, inputMessage, isTyping, showSpinner, chatHistory,
               nextId, calls, streams, escTimers, cancelledAt >>
advVars == << loading, queryResults, advReq, spatialQuery, chatResponse >>
upVars == << uploadedFiles, uploads, upTimers >>
statusVars == << systemStatus, connectionStatus, polls, issued, statusFrom,
                 statusTimers >>
vizVars == << isVisible, vizLoading, visualizationData, selectedParameter,
              selectedFloats, vizReqs, clicked >>

----------------------------------------------------------------------------
(* Messages *)

\* The record addMessage builds: streaming is false.
NewMessage(id, content, type, source) ==
  [ id |-> id, content |-> content, type |-> type, source |-> source,
    streaming |-> FALSE ]

\* The record streamResponse builds: empty content, streaming is true.
NewStreamMessage(id, type, source) ==
  [ id |-> id, content |-> <<>>, type |-> type, source |-> source,
    streaming |-> TRUE ]

\* Mutant of AddMessage: the new message is put in front.
AddMessageFirst(msgs, m) == <<m>> \o msgs

\* setMessages(prev => [...prev, newMessage])
AddMessage(msgs, m) == Append(msgs, m)

\* Mutant of LastN: slice(0, n) instead of slice(-n).
FirstN(s, n) == IF Len(s) <= n THEN s ELSE SubSeq(s, 1, n)

\* s.slice(-n)
LastN(s, n) == IF Len(s) <= n THEN s ELSE SubSeq(s, Len(s) - n + 1, Len(s))

IsUser(m) == m.type = "user"

\* useEffect on [messages]: the last 10 user messages, unless messages is empty.
ChatHistoryEffect(msgs, hist) ==
  IF Len(msgs) > 0 THEN LastN(SelectSeq(msgs, IsUser), MaxHistory) ELSE hist

\* Mutant of SetContent: the message being streamed is found by its streaming
\* flag instead of its id.
SetContentOfStreaming(msgs, id, content) ==
  [ k \in 1..Len(msgs) |->
      IF msgs[k].streaming THEN [ msgs[k] EXCEPT !.content = content ] ELSE msgs[k] ]

\* Mutant of SetContent: a message that is not in the chat is put back.
SetContentUpsert(msgs, id, content) ==
  IF \E k \in 1..Len(msgs) : msgs[k].id = id
    THEN [ k \in 1..Len(msgs) |->
             IF msgs[k].id = id THEN [ msgs[k] EXCEPT !.content = content ]
             ELSE msgs[k] ]
    ELSE Append(msgs, [ NewStreamMessage(id, "assistant", "argo")
                          EXCEPT !.content = content ])

\* prev.map(msg => msg.id === messageId ? { ...msg, content } : msg)
SetContent(msgs, id, content) ==
  [ k \in 1..Len(msgs) |->
      IF msgs[k].id = id THEN [ msgs[k] EXCEPT !.content = content ] ELSE msgs[k] ]

\* prev.map(msg => msg.id === messageId ? { ...msg, streaming: false } : msg)
SetNotStreaming(msgs, id) ==
  [ k \in 1..Len(msgs) |->
      IF msgs[k].id = id THEN [ msgs[k] EXCEPT !.streaming = FALSE ] ELSE msgs[k] ]

----------------------------------------------------------------------------
(* The backend *)

\* What a POST to /api/query-data or /api/web-search can come to: the request
\* throws, or a JSON result with a success flag and an optional response text.
BackendOutcomes ==
  { [ thrown |-> TRUE, success |-> FALSE, response |-> Absent ] }
  \cup
  { [ thrown |-> FALSE, success |-> s, response |-> r ] :
      s \in BOOLEAN, r \in {Absent} \cup { Some(t) : t \in ResponseTexts } }

\* What a request of the Advanced Queries panel can come to: a well-formed
\* success, success=true with data the summary cannot be built from, success=false,
\* or a thrown request.
AdvOutcomes == { "ok", "malformed", "fail", "throw" }

AdvKinds == { "temporal", "spatial", "bgc" }

\* A coordinate of the spatial query, in whole degrees: a number, or the NaN
\* that parseFloat gives for an input that is not one.
Num(d) == [ nan |-> FALSE, deg |-> d ]
NaN == [ nan |-> TRUE, deg |-> 0 ]

\* useState of spatialQuery: latitude 15.52, longitude 68.25.
InitialSpatialQuery == [ latitude |-> Num(15), longitude |-> Num(68) ]

----------------------------------------------------------------------------
(* handleSendMessage, lines 283-298: what to show for a backend outcome *)

\* Mutant of Escalates: the test of queryType is left out.
EscalatesAnyType(queryType, o) ==
  /\ Truthy(o.response)
  /\ Includes(o.response[1], NotAvailable)

\* queryType === 'argo' && result.response && result.response.includes('not available')
Escalates(queryType, o) ==
  /\ queryType = "argo"
  /\ Truthy(o.response)
  /\ Includes(o.response[1], NotAvailable)

\* Mutant of ResultSource: a failure is streamed with the source of an answer.
ResultSourceOfType(queryType, o) ==
  IF o.success \/ ~Escalates(queryType, o) THEN queryType ELSE "system"

\* The source of the message streamed for a JSON result.
ResultSource(queryType, o) ==
  IF o.success THEN queryType
  ELSE IF Escalates(queryType, o) THEN "system"
  ELSE "error"

\* The text streamed for a JSON result whose text can be streamed.
ResultText(queryType, o) ==
  IF o.success THEN o.response[1]
  ELSE IF Escalates(queryType, o) THEN SearchingText
  ELSE IF Truthy(o.response) THEN o.response[1] ELSE ProcessingErrorText

\* result.success with no response text: streamResponse(undefined) appends its
\* message and then throws at text.split, which the catch block turns into the
\* connection error.
StreamThrows(o) == ~o.thrown /\ o.success /\ o.response = Absent

----------------------------------------------------------------------------
(* streamResponse *)

\* streamResponse up to its first await: the message is appended and the first
\* word revealed.
StreamStartMessages(msgs, id, text, type, source) ==
  SetContent(Append(msgs, NewStreamMessage(id, type, source)), id,
             Reveal(<<>>, Split(text), 0))

\* The invocation in progress: i words revealed, currentText shown.
StreamRecord(id, text, call, escalate) ==
  [ id |-> id, text |-> text, words |-> Split(text), i |-> 1,
    currentText |-> Reveal(<<>>, Split(text), 0),
    call |-> call, escalate |-> escalate ]

----------------------------------------------------------------------------
(* The initial values of the status and of the visualization panel *)

\* useState of systemStatus: no profiles, nothing extracted, nothing ready.
InitialSystemStatus ==
  [ profiles_count |-> 0, real_data_extracted |-> FALSE,
    visualization_ready |-> FALSE, advanced_query_ready |-> FALSE ]

\* connectionStatus with every connection false (the useState value and the
\* value of the catch block), as the backend reports it, and the {} that
\* stands in for a response without connections.
ConnectionsDown == "down"
ConnectionsReported == "reported"
ConnectionsEmpty == "empty"

\* visualizationData: null, or an object whose parts are present or not.
NoData ==
  [ isNull |-> TRUE, floats |-> Absent, depthTime |-> Absent,
    comparison |-> Absent ]

----------------------------------------------------------------------------
Init ==
  /\ messages = <<>>
  /\ inputMessage = <<>>
  /\ isTyping = FALSE
  /\ showSpinner = FALSE
  /\ chatHistory = <<>>
  /\ nextId = 1
  /\ calls = <<>>
  /\ streams = {}
  /\ escTimers = {}
  /\ cancelledAt = {}
  /\ loading = FALSE
  /\ queryResults = "null"
  /\ advReq = <<>>
  /\ spatialQuery = InitialSpatialQuery
  /\ chatResponse = <<>>
  /\ uploadedFiles = <<>>
  /\ uploads = {}
  /\ upTimers = {}
  /\ systemStatus = InitialSystemStatus
  /\ connectionStatus = ConnectionsDown
  /\ polls = {}
  /\ issued = 0
  /\ statusFrom = 0
  /\ statusTimers = 0
  /\ isVisible = FALSE
  /\ vizLoading = FALSE
  /\ visualizationData = NoData
  /\ selectedParameter = "temperature"
  /\ selectedFloats = <<>>
  /\ vizReqs = <<>>
  /\ clicked = <<>>

\* onChange of the textarea, which is disabled while isTyping or showSpinner.
TypeInput(t) ==
  /\ ~(isTyping \/ showSpinner)
  /\ inputMessage' = t
  /\ UNCHANGED << messages, isTyping, showSpinner, chatHistory, nextId, calls,
                  streams, escTimers, cancelledAt >>
  /\ UNCHANGED advVars
  /\ UNCHANGED upVars
  /\ UNCHANGED << statusVars, vizVars >>

\* n more message ids are left.
IdsLeft(n) == nextId + n - 1 <= MaxIds

\* Mutant of GuardPasses: isTyping is not tested.
GuardPassesBlankOnly(message, seenTyping) == ~IsBlank(message)

\* The entry guard of handleSendMessage: !message.trim() || isTyping returns.
\* seenTyping is the isTyping of the render the called closure belongs to.
GuardPasses(message, seenTyping) == ~IsBlank(message) /\ ~seenTyping

\* handleSendMessage(message, queryType, isAutoQuery) up to its await of fetch.
\* root is the call that began the chain (0: this call).
HandleSendMessage(message, queryType, isAutoQuery, seenTyping, root) ==
  IF ~GuardPasses(message, seenTyping)
    THEN UNCHANGED << messages, inputMessage, isTyping, showSpinner, chatHistory,
                      nextId, calls, streams, cancelledAt >>
    ELSE
      LET msgs == IF isAutoQuery THEN messages
                  ELSE AddMessage(messages, NewMessage(nextId, message, "user", "null"))
          c    == Len(calls) + 1
      IN  /\ messages' = msgs
          /\ chatHistory' = ChatHistoryEffect(msgs, chatHistory)
          /\ nextId' = IF isAutoQuery THEN nextId ELSE nextId + 1
          /\ inputMessage' = IF isAutoQuery THEN inputMessage ELSE <<>>
          /\ showSpinner' = TRUE
          /\ calls' = Append(calls,
               [ message |-> message, queryType |-> queryType,
                 auto |-> isAutoQuery, root |-> IF root = 0 THEN c ELSE root,
                 pc |-> "fetch", result |-> <<>>, escalated |-> FALSE,
                 msgId |-> 0 ])
          /\ UNCHANGED << isTyping, streams, cancelledAt >>

\* The three send buttons of the input area (disabled when the input is blank,
\* isTyping or showSpinner): handleSendMessage(inputMessage, queryType).
SendButton(queryType) ==
  /\ IdsLeft(1)
  /\ ~IsBlank(inputMessage) /\ ~isTyping /\ ~showSpinner
  /\ HandleSendMessage(inputMessage, queryType, FALSE, isTyping, 0)
  /\ UNCHANGED escTimers
  /\ UNCHANGED advVars
  /\ UNCHANGED upVars
  /\ UNCHANGED << statusVars, vizVars >>

\* Enter in the textarea (disabled while isTyping or showSpinner):
\* handleSendMessage(inputMessage).
EnterKey ==
  /\ IdsLeft(1)
  /\ ~isTyping /\ ~showSpinner
  /\ HandleSendMessage(inputMessage, "argo", FALSE, isTyping, 0)
  /\ UNCHANGED escTimers
  /\ UNCHANGED advVars
  /\ UNCHANGED upVars
  /\ UNCHANGED << statusVars, vizVars >>

\* A quick-example button of the sidebar (disabled only while isTyping):
\* !isTyping && handleSendMessage(example).
ExampleButton(k) ==
  /\ IdsLeft(1)
  /\ ~isTyping
  /\ HandleSendMessage(quickExamples[k], "argo", FALSE, isTyping, 0)
  /\ UNCHANGED escTimers
  /\ UNCHANGED advVars
  /\ UNCHANGED upVars
  /\ UNCHANGED << statusVars, vizVars >>

\* A history button of the sidebar (disabled only while isTyping):
\* !isTyping && handleSendMessage(msg.content).
HistoryButton(k) ==
  /\ IdsLeft(1)
  /\ ~isTyping
  /\ HandleSendMessage(chatHistory[k].content, "argo", FALSE, isTyping, 0)
  /\ UNCHANGED escTimers
  /\ UNCHANGED advVars
  /\ UNCHANGED upVars
  /\ UNCHANGED << statusVars, vizVars >>

\* handleSendMessage from the arrival of the fetch result o to the first await
\* inside streamResponse (lines 283-298 and 198-226).
Respond(c, o) ==
  /\ calls[c].pc = "fetch"
  /\ IdsLeft(IF StreamThrows(o) THEN 2 ELSE 1)
  /\ LET qt       == calls[c].queryType
         dangling == StreamThrows(o)
         id       == IF dangling THEN nextId + 1 ELSE nextId
         text     == IF o.thrown \/ dangling THEN ConnectionErrorText
                     ELSE ResultText(qt, o)
         source   == IF o.thrown \/ dangling THEN "error" ELSE ResultSource(qt, o)
         esc      == ~o.thrown /\ ~o.success /\ Escalates(qt, o)
         base     == IF dangling
                       THEN Append(messages, NewStreamMessage(nextId, "assistant", qt))
                       ELSE messages
         msgs     == StreamStartMessages(base, id, text, "assistant", source)
     IN  /\ messages' = msgs
         /\ chatHistory' = ChatHistoryEffect(msgs, chatHistory)
         /\ nextId' = id + 1
         /\ streams' = streams \cup { StreamRecord(id, text, c, esc) }
         /\ calls' = [ calls EXCEPT ![c].pc = "stream", ![c].result = <<o>>,
                                    ![c].escalated = esc, ![c].msgId = id ]
  /\ isTyping' = TRUE
  /\ showSpinner' = TRUE
  /\ UNCHANGED << inputMessage, escTimers, cancelledAt >>
  /\ UNCHANGED advVars
  /\ UNCHANGED upVars
  /\ UNCHANGED << statusVars, vizVars >>

\* Mutant of TypingAfterStream: the flag is not reset.
TypingKeptAfterStream == TRUE

\* The isTyping the end of a stream leaves: setIsTyping(false).
TypingAfterStream == FALSE

\* Mutant of LoopContinues: the loop stops one word early.
LoopContinuesShort(i, words) == i + 1 < Len(words)

\* The test of the reveal loop, i < words.length, with i words revealed.
LoopContinues(i, words) == i < Len(words)

\* A reveal timer of stream s fires: the next word is revealed, or the loop has
\* ended and streamResponse finishes (lines 217-236); a stream awaited by
\* handleSendMessage then runs that call to its end (lines 290-301).
StreamStep(s) ==
  /\ s \in streams
  /\ IF LoopContinues(s.i, s.words)
       THEN LET text == Reveal(s.currentText, s.words, s.i)
                msgs == SetContent(messages, s.id, text)
            IN  /\ messages' = msgs
                /\ chatHistory' = ChatHistoryEffect(msgs, chatHistory)
                /\ streams' = (streams \ {s}) \cup
                              { [ s EXCEPT !.i = s.i + 1, !.currentText = text ] }
                /\ UNCHANGED << isTyping, showSpinner, calls, escTimers >>
       ELSE LET msgs == SetNotStreaming(messages, s.id)
            IN  /\ messages' = msgs
                /\ chatHistory' = ChatHistoryEffect(msgs, chatHistory)
                /\ streams' = streams \ {s}
                /\ isTyping' = TypingAfterStream
                /\ showSpinner' = FALSE
                /\ calls' = IF s.call = 0 THEN calls
                            ELSE [ calls EXCEPT ![s.call].pc = "done" ]
                /\ escTimers' = IF s.call # 0 /\ s.escalate
                                  THEN escTimers \cup {s.call} ELSE escTimers
  /\ UNCHANGED << inputMessage, nextId, cancelledAt >>
  /\ UNCHANGED advVars
  /\ UNCHANGED upVars
  /\ UNCHANGED << statusVars, vizVars >>

\* The escalation timer of call c fires: handleSendMessage(message, 'web', true)
\* of the closure that call c ran in, whose isTyping is the false it was called with.
EscalationTimer(c) ==
  /\ c \in escTimers
  /\ escTimers' = escTimers \ {c}
  /\ HandleSendMessage(calls[c].message, "web", TRUE, FALSE, calls[c].root)
  /\ UNCHANGED advVars
  /\ UNCHANGED upVars
  /\ UNCHANGED << statusVars, vizVars >>

\* clearChat: setMessages([]); setChatHistory([]); addMessage('**Chat Cleared**...').
ClearChat ==
  /\ IdsLeft(1)
  /\ LET msgs == AddMessage(<<>>, NewMessage(nextId, ChatClearedText, "system", "null"))
     IN  /\ messages' = msgs
         /\ chatHistory' = ChatHistoryEffect(msgs, <<>>)
  /\ nextId' = nextId + 1
  /\ cancelledAt' = cancelledAt \cup { <<s.id, s.i>> : s \in streams }
  /\ UNCHANGED << inputMessage, isTyping, showSpinner, calls, streams, escTimers >>
  /\ UNCHANGED advVars
  /\ UNCHANGED upVars
  /\ UNCHANGED << statusVars, vizVars >>

----------------------------------------------------------------------------
(* handleFileUpload *)

\* Bound of the model: the files a behaviour uploads.
MaxFiles == 1

\* 'Analyze the uploaded NC file "name" and provide comprehensive ...'
AutoQueryText == <<"u">>
\* 'Provide detailed analysis of uploaded file name with comprehensive ...'
AnalyzeText == <<"f">>
\* '**File Processing Complete** ...', '**Upload Failed** ...', '**Upload Error** ...'
UploadCompleteText == <<"F">>
UploadFailedText == <<"U">>
UploadErrorText == <<"X">>

\* What a POST to /api/upload-file can come to.
UploadOutcomes == { "success", "failed", "throw" }

\* The entry of a file, entered as already uploaded.
NewFileSucceeded(id) == [ id |-> id, status |-> "success" ]

\* The entry handleFileUpload adds for a file before it is sent.
NewFile(id) == [ id |-> id, status |-> "uploading" ]

\* prev.map(f => f.id === fileId ? { ...f, status } : f)
SetStatus(files, id, status) ==
  [ k \in 1..Len(files) |->
      IF files[k].id = id THEN [ files[k] EXCEPT !.status = status ] ELSE files[k] ]

\* handleFileUpload(files) with n files, dropped or picked (the drop zone is
\* never disabled), up to the await of the first fetch: the first file is
\* entered as uploading.  The invocation keeps the closure of the render it was
\* called in, and with it that render's isTyping.
HandleFileUpload(n) ==
  /\ Len(uploadedFiles) + n <= MaxFiles
  /\ LET id == Len(uploadedFiles) + 1
     IN  /\ uploadedFiles' = Append(uploadedFiles, NewFile(id))
         /\ uploads' = uploads \cup
              { [ file |-> id, left |-> n - 1, seenTyping |-> isTyping ] }
  /\ UNCHANGED upTimers
  /\ UNCHANGED chatVars
  /\ UNCHANGED advVars
  /\ UNCHANGED << statusVars, vizVars >>

\* The message handleFileUpload adds for the outcome of an upload.
UploadMessage(id, outcome) ==
  CASE outcome = "success" -> NewMessage(id, UploadCompleteText, "system", "null")
    [] outcome = "failed"  -> NewMessage(id, UploadFailedText, "error", "null")
    [] outcome = "throw"   -> NewMessage(id, UploadErrorText, "error", "null")

\* handleFileUpload from the end of the request of its current file to the
\* await of the next one, or to its end: the status of the file is set, the
\* message added, after a success the timer of the automatic query started, and
\* the next file entered as uploading, or after the last file the timer of the
\* status refresh started, setTimeout(fetchSystemStatus, 2000).
UploadRespond(u, outcome) ==
  /\ u \in uploads
  /\ IdsLeft(1)
  /\ LET msgs  == AddMessage(messages, UploadMessage(nextId, outcome))
         files == SetStatus(uploadedFiles, u.file,
                            IF outcome = "success" THEN "success" ELSE "error")
         next  == Len(uploadedFiles) + 1
     IN  /\ messages' = msgs
         /\ chatHistory' = ChatHistoryEffect(msgs, chatHistory)
         /\ nextId' = nextId + 1
         /\ upTimers' = IF outcome = "success"
                          THEN upTimers \cup
                                 { [ file |-> u.file, seenTyping |-> u.seenTyping ] }
                          ELSE upTimers
         /\ IF u.left > 0
              THEN /\ uploadedFiles' = Append(files, NewFile(next))
                   /\ uploads' = (uploads \ {u}) \cup
                        { [ file |-> next, left |-> u.left - 1,
                            seenTyping |-> u.seenTyping ] }
              ELSE /\ uploadedFiles' = files
                   /\ uploads' = uploads \ {u}
         /\ statusTimers' = IF u.left > 0 THEN statusTimers ELSE statusTimers + 1
  /\ UNCHANGED << systemStatus, connectionStatus, polls, issued, statusFrom >>
  /\ UNCHANGED << inputMessage, isTyping, showSpinner, calls, streams, escTimers,
                  cancelledAt >>
  /\ UNCHANGED advVars
  /\ UNCHANGED vizVars

\* The timer of an uploaded file fires: handleSendMessage(autoQuery, 'argo',
\* true) of the closure handleFileUpload was called in.
UploadTimer(t) ==
  /\ t \in upTimers
  /\ upTimers' = upTimers \ {t}
  /\ HandleSendMessage(AutoQueryText, "argo", TRUE, t.seenTyping, 0)
  /\ UNCHANGED << uploadedFiles, uploads, escTimers >>
  /\ UNCHANGED advVars
  /\ UNCHANGED << statusVars, vizVars >>

\* The 'Analyze File' button of an uploaded file (shown for a file whose upload
\* succeeded, disabled only while isTyping):
\* !isTyping && handleSendMessage('Provide detailed analysis ...').
AnalyzeFileButton(k) ==
  /\ IdsLeft(1)
  /\ uploadedFiles[k].status = "success"
  /\ ~isTyping
  /\ HandleSendMessage(AnalyzeText, "argo", FALSE, isTyping, 0)
  /\ UNCHANGED escTimers
  /\ UNCHANGED advVars
  /\ UNCHANGED upVars
  /\ UNCHANGED << statusVars, vizVars >>

----------------------------------------------------------------------------
(* AdvancedQueries.jsx *)

\* The source handed to onQuerySubmit with a result.
AdvSource(kind) ==
  CASE kind = "temporal" -> "temporal"
    [] kind = "spatial"  -> "spatial"
    [] kind = "bgc"      -> "bgc_comparison"

\* The summaries and error texts of the three queries, abbreviated.
AdvSummary(kind) ==
  CASE kind = "temporal" -> <<"T">>
    [] kind = "spatial"  -> <<"N">>
    [] kind = "bgc"      -> <<"B">>

AdvErrorText(kind) ==
  CASE kind = "temporal" -> <<"t">>
    [] kind = "spatial"  -> <<"s">>
    [] kind = "bgc"      -> <<"b">>

\* The parameters a request carries that come from the spatial form: lat and lon
\* of /api/floats/nearest, written into the URL as they stand.
RequestUrl(kind) ==
  IF kind = "spatial" THEN << spatialQuery.latitude, spatialQuery.longitude >>
  ELSE << >>

\* executeTemporalQuery / executeSpatialQuery / executeBGCQuery up to the await
\* of fetch; the three buttons are disabled while loading.
ExecuteQuery(kind) ==
  /\ ~loading
  /\ loading' = TRUE
  /\ advReq' = <<kind, RequestUrl(kind)>>
  /\ UNCHANGED << queryResults, spatialQuery, chatResponse >>
  /\ UNCHANGED chatVars
  /\ UNCHANGED upVars
  /\ UNCHANGED << statusVars, vizVars >>

\* The calls of onQuerySubmit an outcome leads to: <<text, source>> pairs.
\* success builds the summary and submits it; an exception on the way (the
\* request, or data the summary cannot be built from) submits the error text;
\* success=false submits nothing.
AdvSubmissions(kind, outcome) ==
  CASE outcome = "ok"        -> << <<AdvSummary(kind), AdvSource(kind)>> >>
    [] outcome = "malformed" -> << <<AdvErrorText(kind), "error">> >>
    [] outcome = "throw"     -> << <<AdvErrorText(kind), "error">> >>
    [] outcome = "fail"      -> << >>

\* The rest of the execute function once the request has ended: results is what
\* setQueryResults keeps, text the chatResponse built, subs the calls of
\* onQuerySubmit = handleAdvancedQuerySubmit, which starts streamResponse.
AdvFinish(subs, results, text) ==
  /\ advReq # <<>>
  /\ queryResults' = results
  /\ chatResponse' = text
  /\ subs # <<>> => IdsLeft(1)
  /\ IF subs = <<>>
       THEN UNCHANGED << messages, chatHistory, nextId, streams,
                         isTyping, showSpinner >>
       ELSE LET msgs == StreamStartMessages(messages, nextId, subs[1][1],
                                            "assistant", subs[1][2])
            IN  /\ messages' = msgs
                /\ chatHistory' = ChatHistoryEffect(msgs, chatHistory)
                /\ nextId' = nextId + 1
                /\ streams' = streams \cup
                     { StreamRecord(nextId, subs[1][1], 0, FALSE) }
                /\ isTyping' = TRUE
                /\ showSpinner' = TRUE
  /\ loading' = FALSE
  /\ advReq' = <<>>
  /\ UNCHANGED << inputMessage, calls, escTimers, cancelledAt, spatialQuery >>
  /\ UNCHANGED upVars
  /\ UNCHANGED << statusVars, vizVars >>

\* The request in flight ends with an outcome; the data of a result are left
\* out here ("data") and the text handed over is the abbreviated summary.
AdvRespond(outcome) ==
  /\ advReq # <<>>
  /\ AdvFinish(AdvSubmissions(advReq[1], outcome),
               IF outcome \in {"ok", "malformed"} THEN "data" ELSE queryResults,
               chatResponse)

----------------------------------------------------------------------------
(* AdvancedQueries.jsx: the form of the spatial query *)

\* What parseFloat(e.target.value) gives for what the user types into a
\* coordinate input: a number, of any size, or NaN (the min and max attributes of
\* the input do not keep a typed value out).
TypedCoordinates == { Num(91), NaN }

\* The preset buttons: Arabian Sea Center, Bay of Bengal Center, Chennai Coast,
\* Mumbai Coast.
Presets == { <<15, 68>>, <<15, 87>>, <<13, 80>>, <<19, 72>> }

\* onChange of the latitude input.
SetLatitude(v) ==
  /\ spatialQuery' = [ spatialQuery EXCEPT !.latitude = v ]
  /\ UNCHANGED << loading, queryResults, advReq, chatResponse >>
  /\ UNCHANGED chatVars
  /\ UNCHANGED upVars
  /\ UNCHANGED << statusVars, vizVars >>

\* onChange of the longitude input.
SetLongitude(v) ==
  /\ spatialQuery' = [ spatialQuery EXCEPT !.longitude = v ]
  /\ UNCHANGED << loading, queryResults, advReq, chatResponse >>
  /\ UNCHANGED chatVars
  /\ UNCHANGED upVars
  /\ UNCHANGED << statusVars, vizVars >>

\* onClick of a preset button.
PresetButton(preset) ==
  /\ spatialQuery' = [ spatialQuery EXCEPT !.latitude = Num(preset[1]),
                                           !.longitude = Num(preset[2]) ]
  /\ UNCHANGED << loading, queryResults, advReq, chatResponse >>
  /\ UNCHANGED chatVars
  /\ UNCHANGED upVars
  /\ UNCHANGED << statusVars, vizVars >>

----------------------------------------------------------------------------
(* AdvancedQueries.jsx: the answer of the spatial query *)

\* Bound of the model: the floats the backend knows.
MaxFloats == 6

\* Program constants: the rows of the table in the chat; the floats of the
\* 'Nearest Floats' list of the panel.
TableRows == 5
NearestShown == 3

FloatIds == 1..MaxFloats

\* The distance_km of float f from the centre of the search: the floats with
\* the higher ids lie nearer, two by two at the same distance.
DistanceOf == [ f \in FloatIds |-> 10 * (1 + (MaxFloats - f) \div 2) ]

\* The backend, /api/floats/nearest: the floats S within the radius, at the
\* distances d, sorted by distance ascending, equal distances by float id.
Rank(S, d, f) ==
  Cardinality({ g \in S : d[g] < d[f] \/ (d[g] = d[f] /\ g < f) }) + 1

NearestFloats(S, d) ==
  [ k \in 1..Cardinality(S) |->
      LET f == CHOOSE g \in S : Rank(S, d, g) = k
      IN  [ float_id |-> f, distance_km |-> d[f] ] ]

\* The results of a spatial request that succeeds.
SpatialResults ==
  { [ floats |-> NearestFloats(S, DistanceOf) ] : S \in SUBSET FloatIds }

\* s.slice(0, n)
SliceTo(s, n) == IF Len(s) <= n THEN s ELSE SubSeq(s, 1, n)

\* Mutant of SpatialRows: the rows are put together back to front.
SpatialRowsReversed(floats) ==
  LET shown == SliceTo(floats, TableRows)
  IN  [ k \in 1..Len(shown) |->
          [ kind |-> "row", float_id |-> shown[Len(shown) + 1 - k].float_id,
            distance_km |-> shown[Len(shown) + 1 - k].distance_km ] ]

\* result.floats.slice(0, 5).forEach(f => chatResponse += '| f.float_id |
\* f.distance_km km | ...'): one row of the table for each float.
SpatialRows(floats) ==
  LET shown == SliceTo(floats, TableRows)
  IN  [ k \in 1..Len(shown) |->
          [ kind |-> "row", float_id |-> shown[k].float_id,
            distance_km |-> shown[k].distance_km ] ]

\* Mutant of Truncated: >= instead of >.
TruncatedFrom(floats) == Len(floats) >= TableRows

\* result.floats.length > 5
Truncated(floats) == Len(floats) > TableRows

\* The chatResponse of executeSpatialQuery, line by line: the heading and the
\* head of the table, the rows, the '...' row and the 'Showing top 5 results'
\* note if truncated, the closing line.
SpatialChatResponse(result) ==
  << [ kind |-> "heading" ] >>
  \o SpatialRows(result.floats)
  \o (IF Truncated(result.floats)
        THEN << [ kind |-> "..." ], [ kind |-> "showing" ] >> ELSE << >>)
  \o << [ kind |-> "distribution" ] >>

\* renderQueryResults: the 'Nearest Floats' list, queryResults.floats.slice(0, 3).
NearestList(results) == SliceTo(results.floats, NearestShown)

\* executeSpatialQuery once a request has ended with success and the floats of
\* result: the result is kept, the chatResponse built and handed over.
SpatialRespond(result) ==
  /\ advReq # <<>>
  /\ advReq[1] = "spatial"
  /\ AdvFinish(AdvSubmissions("spatial", "ok"), result, SpatialChatResponse(result))

----------------------------------------------------------------------------
(* AdvancedQueries.jsx: the answer of the BGC query *)

\* The values of an analysis, in thousandths: 1.2 and 1.235.
BGCValues == { 1200, 1235 }

\* The results of a BGC request that succeeds: result.data, with the analysis
\* of one parameter.
BGCResults ==
  { [ analysis |-> [ overall_min |-> a, overall_max |-> b,
                     mean_min |-> c, mean_max |-> d ] ] :
      a \in BGCValues, b \in BGCValues, c \in BGCValues, d \in BGCValues }

\* v.toFixed(2) of a value v >= 0 in thousandths: the numbers of hundredths it
\* can write.  The value is rounded to the nearest hundredth; half-way between
\* two, the binary expansion of the number decides, either way.
ToFixed2(v) ==
  IF v % 10 = 5 THEN { v \div 10, v \div 10 + 1 } ELSE { (v + 5) \div 10 }

\* The numbers executeBGCQuery can write for an analysis.
Written(analysis) ==
  { [ overall_min |-> a, overall_max |-> b, mean_min |-> c, mean_max |-> d ] :
      a \in ToFixed2(analysis.overall_min), b \in ToFixed2(analysis.overall_max),
      c \in ToFixed2(analysis.mean_min), d \in ToFixed2(analysis.mean_max) }

\* The chatResponse of executeBGCQuery, line by line, with the numbers w written
\* for the parameter: the heading, 'Range: min - max', 'Mean variation: min -
\* max', the data coverage, the closing line.
BGCChatResponse(w) ==
  << [ kind |-> "heading" ],
     [ kind |-> "range", min |-> w.overall_min, max |-> w.overall_max ],
     [ kind |-> "mean", min |-> w.mean_min, max |-> w.mean_max ],
     [ kind |-> "coverage" ],
     [ kind |-> "complete" ] >>

\* executeBGCQuery once a request has ended with success and the data of
\* result: the data are kept, the chatResponse built and handed over.
BGCRespond(result, w) ==
  /\ advReq # <<>>
  /\ advReq[1] = "bgc"
  /\ w \in Written(result.analysis)
  /\ AdvFinish(AdvSubmissions("bgc", "ok"), result, BGCChatResponse(w))

----------------------------------------------------------------------------
(* fetchSystemStatus *)

\* The most status requests of a run.
MaxPolls == 2

\* What the backend reports as system_status: nothing, no data yet, or data
\* extracted from profiles.
SystemStatusReports ==
  { [ present |-> FALSE, profiles_count |-> 0, real_data_extracted |-> FALSE ],
    [ present |-> TRUE,  profiles_count |-> 0, real_data_extracted |-> FALSE ],
    [ present |-> TRUE,  profiles_count |-> 1, real_data_extracted |-> TRUE ] }

\* The outcomes of a status request: the request or the reading of its JSON
\* throws, or a response arrives with its system_status and its connections
\* (none is the same to the program as an empty object).
StatusOutcomes ==
  { [ throws |-> TRUE, system_status |-> r, connections |-> ConnectionsEmpty ] :
      r \in { rr \in SystemStatusReports : ~rr.present } }
  \cup
  { [ throws |-> FALSE, system_status |-> r, connections |-> c ] :
      r \in SystemStatusReports,
      c \in { ConnectionsEmpty, ConnectionsReported } }

\* setSystemStatus(prev => ({...prev, ...data.system_status,
\*   visualization_ready: ..., advanced_query_ready: ...})): the fields of the
\* report replace those of prev, and both flags are computed from the report
\* (undefined > 0 is false when there is no report).
MergeStatus(prev, report) ==
  LET ready == report.present /\ report.profiles_count > 0
                 /\ report.real_data_extracted
  IN  [ profiles_count       |-> IF report.present THEN report.profiles_count
                                                   ELSE prev.profiles_count,
        real_data_extracted  |-> IF report.present THEN report.real_data_extracted
                                                   ELSE prev.real_data_extracted,
        visualization_ready  |-> ready,
        advanced_query_ready |-> ready ]

\* data.connections || {}: the connections of the response, {} when it has
\* none.
ConnectionsOf(connections) == connections

\* What fetchSystemStatus does to the conversation, the uploads and the
\* panels: it sets none of their state.
StatusFrameBreaks ==
  /\ showSpinner' = FALSE
  /\ UNCHANGED << messages, inputMessage, isTyping, chatHistory, nextId, calls,
                  streams, escTimers, cancelledAt >>
  /\ UNCHANGED << advVars, upVars, vizVars >>

StatusFrame ==
  UNCHANGED << chatVars, advVars, upVars, vizVars >>

\* fetchSystemStatus up to the await of its fetch: a request is in flight.
FetchSystemStatus ==
  /\ issued < MaxPolls
  /\ issued' = issued + 1
  /\ polls' = polls \cup { issued + 1 }
  /\ UNCHANGED << systemStatus, connectionStatus, statusFrom >>
  /\ StatusFrame

\* The call of the effect at the mount and of its setInterval(..., 5000).
IntervalPoll ==
  /\ FetchSystemStatus
  /\ UNCHANGED statusTimers

\* The Refresh button: onClick={fetchSystemStatus}.
RefreshButton ==
  /\ FetchSystemStatus
  /\ UNCHANGED statusTimers

\* The timer an upload started fires: setTimeout(fetchSystemStatus, 2000).
StatusTimer ==
  /\ statusTimers > 0
  /\ statusTimers' = statusTimers - 1
  /\ FetchSystemStatus

\* fetchSystemStatus from the end of its request: the response is merged into
\* systemStatus and its connections become connectionStatus, or after a throw
\* every connection is set to false.  Nothing tells the request of one call
\* from that of another.
StatusRespond(p, outcome) ==
  /\ p \in polls
  /\ polls' = polls \ { p }
  /\ statusFrom' = p
  /\ IF outcome.throws
       THEN /\ connectionStatus' = ConnectionsDown
            /\ UNCHANGED systemStatus
       ELSE /\ systemStatus' = MergeStatus(systemStatus, outcome.system_status)
            /\ connectionStatus' = ConnectionsOf(outcome.connections)
  /\ UNCHANGED << issued, statusTimers >>
  /\ StatusFrame

----------------------------------------------------------------------------
(* GeospatialVisualizations.jsx *)

\* The most requests of the panel in flight at once.
MaxLoads == 2

\* [...prev, floatId].slice(0, 5)
SelectionLimit == 5

\* The options of the parameter select.
Parameters == { "temperature", "salinity", "pressure", "oxygen" }

\* result.floats of the interactive map: the floats the map shows, each with
\* its id as the customdata of its point.
MapFloats == [ k \in 1..MaxFloats |-> k ]

\* prev.includes(floatId)
Selected(prev, floatId) == \E k \in 1..Len(prev) : prev[k] = floatId

\* prev.filter(id => id !== floatId)
Without(prev, floatId) == SelectSeq(prev, LAMBDA id : id # floatId)

\* Mutant of Toggle: the new selection is not cut to the limit.
ToggleUnlimited(prev, floatId) ==
  IF Selected(prev, floatId)
    THEN Without(prev, floatId)
    ELSE Append(prev, floatId)

\* The new selection of handleFloatSelection.
Toggle(prev, floatId) ==
  IF Selected(prev, floatId)
    THEN Without(prev, floatId)
    ELSE SliceTo(Append(prev, floatId), SelectionLimit)

\* A click on a float of the map, or on the chip of a selected float below
\* the map: handleFloatSelection(floatId).
HandleFloatSelection(floatId) ==
  /\ isVisible
  /\ visualizationData.floats # Absent
  /\ Selected(visualizationData.floats[1], floatId)
  /\ selectedFloats' = Toggle(selectedFloats, floatId)
  /\ clicked' = << floatId, selectedFloats >>
  /\ UNCHANGED << isVisible, vizLoading, visualizationData, selectedParameter,
                  vizReqs >>
  /\ UNCHANGED << chatVars, advVars, upVars, statusVars >>

\* The parameter select: onChange={(e) => setSelectedParameter(e.target.value)}.
SetSelectedParameter(p) ==
  /\ isVisible
  /\ selectedParameter' = p
  /\ UNCHANGED << isVisible, vizLoading, visualizationData, selectedFloats,
                  vizReqs, clicked >>
  /\ UNCHANGED << chatVars, advVars, upVars, statusVars >>

\* A load function up to the await of its fetch: setLoading(true) and the
\* request, which for the depth-time plot names the selected parameter.
StartLoad(kind, parameter) ==
  /\ Len(vizReqs) < MaxLoads
  /\ vizLoading' = TRUE
  /\ vizReqs' = Append(vizReqs, [ kind |-> kind, parameter |-> parameter ])

\* The Geospatial Visualizations button of the dashboard, enabled once the
\* status reports data, and the effect of the panel on isVisible:
\* if (isVisible) loadMapData().
OpenPanel ==
  /\ ~isVisible
  /\ systemStatus.visualization_ready
  /\ isVisible' = TRUE
  /\ StartLoad("map", "none")
  /\ UNCHANGED << visualizationData, selectedParameter, selectedFloats, clicked >>
  /\ UNCHANGED << chatVars, advVars, upVars, statusVars >>

\* The close button of the panel: onClose.  The panel stays mounted and keeps
\* its state; it renders nothing.
ClosePanel ==
  /\ isVisible
  /\ isVisible' = FALSE
  /\ UNCHANGED << vizLoading, visualizationData, selectedParameter,
                  selectedFloats, vizReqs, clicked >>
  /\ UNCHANGED << chatVars, advVars, upVars, statusVars >>

\* The Load Depth Profiles button (shown on the depth tab while floats are
\* selected, disabled while loading): loadDepthTimeData.
LoadDepthTimeData ==
  /\ isVisible
  /\ ~vizLoading
  /\ selectedFloats # <<>>
  /\ StartLoad("depth", selectedParameter)
  /\ UNCHANGED << isVisible, visualizationData, selectedParameter,
                  selectedFloats, clicked >>
  /\ UNCHANGED << chatVars, advVars, upVars, statusVars >>

\* The Load Comparison button of the comparison tab, disabled while loading,
\* and the button shown in place of the missing comparison, never disabled:
\* loadComparisonData.
LoadComparisonData ==
  /\ isVisible
  /\ ~vizLoading \/ visualizationData.comparison = Absent
  /\ StartLoad("comparison", "none")
  /\ UNCHANGED << isVisible, visualizationData, selectedParameter,
                  selectedFloats, clicked >>
  /\ UNCHANGED << chatVars, advVars, upVars, statusVars >>

\* setVisualizationData({ floats: result.floats })
MapLoaded(prev, floats) ==
  [ isNull |-> FALSE, floats |-> Some(floats), depthTime |-> Absent,
    comparison |-> Absent ]

\* setVisualizationData(prev => ({ ...prev, depthTime: result.data }))
DepthTimeLoaded(prev, data) ==
  [ prev EXCEPT !.isNull = FALSE, !.depthTime = Some(data) ]

\* setVisualizationData(prev => ({ ...prev, comparison: result.data }))
ComparisonLoaded(prev, data) ==
  [ prev EXCEPT !.isNull = FALSE, !.comparison = Some(data) ]

\* vizReqs without its k-th request.
Remove(reqs, k) == SubSeq(reqs, 1, k - 1) \o SubSeq(reqs, k + 1, Len(reqs))

\* A load function from the end of its request: with a result that has
\* success and data the data is put into visualizationData (the depth-time
\* data are those of the parameter the request named), otherwise, and after a
\* throw, nothing is; finally setLoading(false).
VizRespond(k, outcome) ==
  /\ k \in 1..Len(vizReqs)
  /\ LET req == vizReqs[k]
     IN  visualizationData' =
           CASE outcome # "ok" -> visualizationData
             [] outcome = "ok" /\ req.kind = "map" ->
                  MapLoaded(visualizationData, MapFloats)
             [] outcome = "ok" /\ req.kind = "depth" ->
                  DepthTimeLoaded(visualizationData, [ parameter |-> req.parameter ])
             [] outcome = "ok" /\ req.kind = "comparison" ->
                  ComparisonLoaded(visualizationData, [ parameter |-> "all" ])
  /\ vizReqs' = Remove(vizReqs, k)
  /\ vizLoading' = FALSE
  /\ UNCHANGED << isVisible, selectedParameter, selectedFloats, clicked >>
  /\ UNCHANGED << chatVars, advVars, upVars, statusVars >>

----------------------------------------------------------------------------
\* The dashboard without its Advanced Queries panel.
NextChat ==
  \/ \E t \in InputTexts : TypeInput(t)
  \/ \E qt \in {"argo", "web"} : SendButton(qt)
  \/ EnterKey
  \/ \E k \in 1..Len(quickExamples) : ExampleButton(k)
  \/ \E k \in 1..Len(chatHistory) : HistoryButton(k)
  \/ \E c \in 1..Len(calls) : \E o \in BackendOutcomes : Respond(c, o)
  \/ \E s \in streams : StreamStep(s)
  \/ \E c \in escTimers : EscalationTimer(c)
  \/ ClearChat

Next ==
  \/ NextChat
  \/ \E kind \in AdvKinds : ExecuteQuery(kind)
  \/ \E outcome \in AdvOutcomes : AdvRespond(outcome)

Spec == Init /\ [][Next]_vars

\* The timers of the program fire: setTimeout callbacks run once they are due.
\* Nothing makes the backend answer.
FairSpec ==
  /\ Spec
  /\ WF_vars(\E s \in streams : StreamStep(s))
  /\ WF_vars(\E c \in escTimers : EscalationTimer(c))

----------------------------------------------------------------------------
(* A session that already holds nine answered submissions *)

\* The chat after PriorTurns submissions of the example query, each of which
\* ended in the connection error; the ids of these messages lie before the
\* first id of the behaviour.
PriorTurns == 9

PriorMessages ==
  [ k \in 1..(2 * PriorTurns) |->
      IF k % 2 = 1
        THEN NewMessage(k - 2 * PriorTurns, quickExamples[1], "user", "null")
        ELSE NewMessage(k - 2 * PriorTurns, ConnectionErrorText, "assistant", "error") ]

InitHistory ==
  /\ messages = PriorMessages
  /\ chatHistory = ChatHistoryEffect(PriorMessages, <<>>)
  /\ inputMessage = <<>>
  /\ isTyping = FALSE
  /\ showSpinner = FALSE
  /\ nextId = 1
  /\ calls = <<>>
  /\ streams = {}
  /\ escTimers = {}
  /\ cancelledAt = {}
  /\ loading = FALSE
  /\ queryResults = "null"
  /\ advReq = <<>>
  /\ spatialQuery = InitialSpatialQuery
  /\ chatResponse = <<>>
  /\ uploadedFiles = <<>>
  /\ uploads = {}
  /\ upTimers = {}
  /\ systemStatus = InitialSystemStatus
  /\ connectionStatus = ConnectionsDown
  /\ polls = {}
  /\ issued = 0
  /\ statusFrom = 0
  /\ statusTimers = 0
  /\ isVisible = FALSE
  /\ vizLoading = FALSE
  /\ visualizationData = NoData
  /\ selectedParameter = "temperature"
  /\ selectedFloats = <<>>
  /\ vizReqs = <<>>
  /\ clicked = <<>>

\* The Advanced Queries panel stays closed in this session (its button is
\* disabled until the system status reports data).
SpecHistory == InitHistory /\ [][NextChat]_vars

\* A fresh session whose Advanced Queries panel stays closed.
SpecChat == Init /\ [][NextChat]_vars

\* The same session with its timers firing.
FairSpecChat ==
  /\ SpecChat
  /\ WF_vars(\E s \in streams : StreamStep(s))
  /\ WF_vars(\E c \in escTimers : EscalationTimer(c))

\* The spatial form of the Advanced Queries panel: the user edits the
\* coordinates and searches; the answers are revealed in the chat.
NextSpatialForm ==
  \/ \E v \in TypedCoordinates : SetLatitude(v)
  \/ \E v \in TypedCoordinates : SetLongitude(v)
  \/ \E preset \in Presets : PresetButton(preset)
  \/ ExecuteQuery("spatial")
  \/ \E outcome \in AdvOutcomes : AdvRespond(outcome)
  \/ \E s \in streams : StreamStep(s)

SpecSpatialForm == Init /\ [][NextSpatialForm]_vars

\* The dashboard with its uploads: the user types, a query or blanks, and
\* presses Enter, drops files, asks the example query and has files analysed;
\* the program and the backend do the rest.
NextUpload ==
  \/ \E t \in InputTexts \cup BlankTexts : TypeInput(t)
  \/ EnterKey
  \/ \E n \in 1..MaxFiles : HandleFileUpload(n)
  \/ \E u \in uploads : \E outcome \in UploadOutcomes : UploadRespond(u, outcome)
  \/ \E t \in upTimers : UploadTimer(t)
  \/ \E k \in 1..Len(uploadedFiles) : AnalyzeFileButton(k)
  \/ \E k \in 1..Len(quickExamples) : ExampleButton(k)
  \/ \E c \in 1..Len(calls) : \E o \in BackendOutcomes : Respond(c, o)
  \/ \E s \in streams : StreamStep(s)
  \/ \E c \in escTimers : EscalationTimer(c)

SpecUpload == Init /\ [][NextUpload]_vars

\* The dashboard with its status and its uploads: the status is polled and
\* refreshed, files are dropped, and the backend answers the status and the
\* upload requests.
NextStatus ==
  \/ IntervalPoll
  \/ RefreshButton
  \/ StatusTimer
  \/ \E p \in polls : \E outcome \in StatusOutcomes : StatusRespond(p, outcome)
  \/ \E n \in 1..MaxFiles : HandleFileUpload(n)
  \/ \E u \in uploads : \E outcome \in UploadOutcomes : UploadRespond(u, outcome)
  \/ \E t \in upTimers : UploadTimer(t)

SpecStatus == Init /\ [][NextStatus]_vars

\* Every upload request resolves or rejects, and the timers fire.
FairSpecStatus ==
  /\ SpecStatus
  /\ WF_vars(\E u \in uploads : \E outcome \in UploadOutcomes :
                UploadRespond(u, outcome))
  /\ WF_vars(\E t \in upTimers : UploadTimer(t))
  /\ WF_vars(StatusTimer)

\* A session whose status poll has reported extracted data: the buttons of the
\* panels are enabled.
ReadyStatus ==
  MergeStatus(InitialSystemStatus,
              [ present |-> TRUE, profiles_count |-> 1,
                real_data_extracted |-> TRUE ])

InitReady ==
  /\ messages = <<>>
  /\ chatHistory = <<>>
  /\ inputMessage = <<>>
  /\ isTyping = FALSE
  /\ showSpinner = FALSE
  /\ nextId = 1
  /\ calls = <<>>
  /\ streams = {}
  /\ escTimers = {}
  /\ cancelledAt = {}
  /\ loading = FALSE
  /\ queryResults = "null"
  /\ advReq = <<>>
  /\ spatialQuery = InitialSpatialQuery
  /\ chatResponse = <<>>
  /\ uploadedFiles = <<>>
  /\ uploads = {}
  /\ upTimers = {}
  /\ systemStatus = ReadyStatus
  /\ connectionStatus = ConnectionsReported
  /\ polls = {}
  /\ issued = 1
  /\ statusFrom = 1
  /\ statusTimers = 0
  /\ isVisible = FALSE
  /\ vizLoading = FALSE
  /\ visualizationData = NoData
  /\ selectedParameter = "temperature"
  /\ selectedFloats = <<>>
  /\ vizReqs = <<>>
  /\ clicked = <<>>

\* The Geospatial Visualizations panel with its map: the panel is opened and
\* closed, the map is loaded, and floats are clicked.
NextSelection ==
  \/ OpenPanel
  \/ ClosePanel
  \/ \E k \in 1..Len(vizReqs) : \E outcome \in { "ok", "fail" } :
        VizRespond(k, outcome)
  \/ \E f \in 1..MaxFloats : HandleFloatSelection(f)

SpecSelection == InitReady /\ [][NextSelection]_vars

\* The panel with its plots: the user selects the first float of the map,
\* chooses parameters and loads the depth-time and the comparison data.
NextViz ==
  \/ OpenPanel
  \/ ClosePanel
  \/ \E k \in 1..Len(vizReqs) : \E outcome \in { "ok", "fail" } :
        VizRespond(k, outcome)
  \/ HandleFloatSelection(1)
  \/ \E p \in Parameters : SetSelectedParameter(p)
  \/ LoadDepthTimeData
  \/ LoadComparisonData

SpecViz == InitReady /\ [][NextViz]_vars

\* The spatial query with the data of its results: the user searches at the
\* coordinates the panel opens with; a request succeeds, fails or throws.
NextSpatialAnswer ==
  \/ ExecuteQuery("spatial")
  \/ \E result \in SpatialResults : SpatialRespond(result)
  \/ \E outcome \in {"fail", "throw"} : AdvRespond(outcome)
  \/ \E s \in streams : StreamStep(s)

SpecSpatialAnswer == Init /\ [][NextSpatialAnswer]_vars

\* The BGC query with the data of its results.
NextBGCAnswer ==
  \/ ExecuteQuery("bgc")
  \/ \E result \in BGCResults : \E w \in Written(result.analysis) :
        BGCRespond(result, w)
  \/ \E outcome \in {"fail", "throw"} : AdvRespond(outcome)
  \/ \E s \in streams : StreamStep(s)

SpecBGCAnswer == Init /\ [][NextBGCAnswer]_vars

----------------------------------------------------------------------------
(* Claims *)

CallIds == 1..Len(calls)
Msgs == { messages[k] : k \in 1..Len(messages) }
WithId(id) == { m \in Msgs : m.id = id }

\* Call c ended in failure: the request threw, or the result could not be
\* streamed, or it was success=false and not escalated.
Failed(c) ==
  /\ calls[c].result # <<>>
  /\ LET o == calls[c].result[1]
     IN  \/ o.thrown
         \/ o.success /\ o.response = Absent
         \/ ~o.success /\ ~calls[c].escalated

\* C1: of the submissions of one query made while an earlier request for it is
\* still pending, only one leads to a generation: no two requests of user
\* submissions of the same query are in flight together.
C1_OneGenerationPerQuery ==
  \A c1, c2 \in CallIds :
     ( /\ c1 < c2
       /\ ~calls[c1].auto /\ ~calls[c2].auto
       /\ calls[c1].message = calls[c2].message
       /\ calls[c1].queryType = calls[c2].queryType )
     => ~(calls[c1].pc = "fetch" /\ calls[c2].pc = "fetch")

\* The requests issued for submission r, and the escalations of it still to come.
RequestsOf(r) == { c \in CallIds : calls[c].root = r }
PendingEscalations(r) ==
  { c \in RequestsOf(r) :
      c \in escTimers \/ \E s \in streams : s.call = c /\ s.escalate }

\* C2: a user submission leads to at most two backend requests: only a primary
\* ('argo') call that began the chain escalates, and a 'web' call never does.
C2_EscalatesAtMostOnce ==
  \A r \in CallIds :
     /\ Cardinality(RequestsOf(r)) + Cardinality(PendingEscalations(r)) <= 2
     /\ \A c \in PendingEscalations(r) : calls[c].queryType = "argo" /\ c = r
     /\ \A c \in RequestsOf(r) : c # r => calls[c].queryType = "web" /\ calls[c].auto

\* A chain whose escalated 'web' query failed and ended, with nothing further due.
C2_Witness ==
  \E c \in CallIds :
     /\ calls[c].root # c /\ calls[c].queryType = "web"
     /\ calls[c].pc = "done" /\ Failed(c)
     /\ escTimers = {} /\ streams = {}

\* The source the outcome of call c asks for.
ExpectedSource(c) ==
  LET o == calls[c].result[1]
  IN  IF o.thrown THEN "error"
      ELSE IF o.success
        THEN (IF o.response = Absent THEN "error" ELSE calls[c].queryType)
      ELSE IF calls[c].escalated THEN "system" ELSE "error"

\* C3: a call that passed the guard waits for the backend, or is streaming its
\* message (a reveal timer is due), or has ended; once it has ended its message
\* is terminal (not streaming) and its source tells the outcome: the queryType
\* ('argo', 'web') for an answer, 'error' for a failure or a thrown request; a
\* primary call that escalated showed the 'system' notice and its chain goes on
\* with the 'web' call, whose message is the terminal one.
C3_TerminalMessage ==
  \A c \in CallIds :
     /\ calls[c].pc \in {"fetch", "stream", "done"}
     /\ calls[c].pc = "stream" => \E s \in streams : s.call = c /\ s.id = calls[c].msgId
     /\ calls[c].pc # "fetch" =>
          /\ calls[c].msgId # 0
          /\ \A m \in WithId(calls[c].msgId) :
               /\ m.type = "assistant"
               /\ m.source = ExpectedSource(c)
               /\ calls[c].pc = "done" => ~m.streaming
          /\ calls[c].escalated =>
               /\ calls[c].queryType = "argo"
               /\ calls[c].pc = "done" =>
                    \/ c \in escTimers
                    \/ \E d \in CallIds : d > c /\ calls[d].root = calls[c].root
          /\ ~calls[c].escalated => ExpectedSource(c) \in {"argo", "web", "error"}

\* An escalated chain answered by the secondary source: the 'web' call has ended
\* and its message is in the chat, terminal, with source 'web'.
C3_Witness ==
  \E c \in CallIds :
     /\ calls[c].root # c /\ calls[c].pc = "done"
     /\ calls[c].result[1].success
     /\ \E m \in WithId(calls[c].msgId) : m.source = "web" /\ ~m.streaming

\* C4: a structured query of the Advanced Queries panel that ends delivers
\* exactly one message to the chat.
C4_OneTerminalMessage ==
  [][ (advReq # <<>> /\ advReq' = <<>>) => Len(messages') = Len(messages) + 1 ]_vars

\* A request is pending; the query has reached a terminal state.
RequestPending == \E c \in CallIds : calls[c].pc = "fetch"
Terminal ==
  /\ \A c \in CallIds : calls[c].pc = "done"
  /\ ~isTyping /\ ~showSpinner

\* C5: a pending request is ended by a timeout, so that the query reaches a
\* terminal state even if the backend never answers.
C5_BoundedTimeout == RequestPending ~> Terminal

\* C6: a stream whose message was removed after k words reveals at most one
\* more word.
C6_StopsAfterCancel ==
  \A s \in streams : \A p \in cancelledAt : p[1] = s.id => s.i <= p[2] + 1

\* The first k space-separated words of text, joined by single spaces: the text
\* up to its k-th space, the whole text when it has fewer spaces.
Spaces(text) == { p \in 1..Len(text) : text[p] = Sp }
FirstWords(text, k) ==
  IF Cardinality(Spaces(text)) < k THEN text
  ELSE LET p == CHOOSE q \in Spaces(text) :
                   Cardinality({ r \in Spaces(text) : r < q }) = k - 1
       IN  SubSeq(text, 1, p - 1)

IsPrefix(a, b) == Len(a) <= Len(b) /\ SubSeq(b, 1, Len(a)) = a

\* C7: a stream that has taken k reveal steps shows the first k words of its
\* text, in its own message only; a step extends what was shown, and the stream
\* ends showing the whole text.
C7_RevealInOrder ==
  /\ [] \A s \in streams :
          /\ s.i \in 1..(Cardinality(Spaces(s.text)) + 1)
          /\ \A m \in WithId(s.id) : m.content = FirstWords(s.text, s.i) /\ m.streaming
  /\ [][ \A s \in streams :
           /\ \A t \in streams' : t.id = s.id =>
                \A m \in WithId(s.id) : \A n \in WithId(s.id)' :
                   IsPrefix(m.content, n.content)
           /\ (\A t \in streams' : t.id # s.id) =>
                \A n \in WithId(s.id)' : n.content = s.text /\ ~n.streaming ]_vars

\* Two streams are in progress together, one of them two words into a text of
\* three, with its message in the chat.
C7_Witness ==
  \E s, t \in streams :
     /\ s.id # t.id
     /\ s.i = 2 /\ Cardinality(Spaces(s.text)) = 2
     /\ WithId(s.id) # {} /\ WithId(t.id) # {}

\* C8: the escalation decision taken for a failed primary result is the one
\* the code takes for every result that differs from it only in the response text.
C8_DecisionIgnoresText ==
  \A c \in CallIds :
     ( /\ calls[c].result # <<>>
       /\ calls[c].queryType = "argo"
       /\ ~calls[c].result[1].thrown
       /\ ~calls[c].result[1].success
       /\ calls[c].result[1].response # Absent )
     => \A t \in ResponseTexts :
           Escalates("argo", [ calls[c].result[1] EXCEPT !.response = Some(t) ])
             = calls[c].escalated

\* C9: when a call ends in failure, the system is idle again (isTyping and
\* showSpinner false), the guard of handleSendMessage passes for the same
\* query, and the error message is in the chat as a terminal message unless
\* clearChat removed it.
C9_FailureReturnsToIdle ==
  [][ \A c \in CallIds :
        (calls[c].pc = "stream" /\ calls'[c].pc = "done" /\ Failed(c)) =>
          /\ ~isTyping' /\ ~showSpinner'
          /\ GuardPasses(calls[c].message, isTyping')
          /\ (\A p \in cancelledAt : p[1] # calls[c].msgId) =>
               \E m \in WithId(calls[c].msgId)' : m.source = "error" /\ ~m.streaming
    ]_vars

\* A query failed, its error is shown, and the resubmission of the same query
\* has issued a fresh request.
C9_Witness ==
  /\ Len(messages) = 3 /\ Len(calls) = 2
  /\ messages[1].type = "user"
  /\ messages[2].source = "error" /\ ~messages[2].streaming
  /\ messages[3].type = "user" /\ messages[3].content = messages[1].content
  /\ calls[1].pc = "done" /\ Failed(1)
  /\ ~calls[2].auto /\ calls[2].pc = "fetch"

\* The user messages of the chat, in order.
UserMessages == SelectSeq(messages, IsUser)

\* C10: chatHistory holds at most 10 entries, in submission order, and they are
\* exactly the most recent user messages of the chat: a user message is in it
\* if and only if fewer than 10 user messages follow it.
C10_HistoryBounded ==
  /\ Len(chatHistory) <= MaxHistory
  /\ \A k \in 1..Len(chatHistory) : IsUser(chatHistory[k]) /\ chatHistory[k] \in Msgs
  /\ \A j, k \in 1..Len(chatHistory) : j < k => chatHistory[j].id < chatHistory[k].id
  /\ \A k \in 1..Len(UserMessages) :
        (\E j \in 1..Len(chatHistory) : chatHistory[j] = UserMessages[k])
          <=> Len(UserMessages) - k < MaxHistory

\* A user message arrived at capacity and the oldest entry was evicted: the
\* chat holds 11 user messages and the history starts with the second.
C10_Witness ==
  /\ Len(UserMessages) = MaxHistory + 1
  /\ Len(chatHistory) = MaxHistory
  /\ chatHistory[1] = UserMessages[2]

\* C11: the user's message is appended in the step that submits the query,
\* before its request is answered: a step that issues the request of a user
\* submission appends exactly that message, with a fresh id, at the end of the
\* chat; no other step adds or reorders user messages (clearChat removes them);
\* so the user messages stand in submission order whatever the order in which
\* the answers arrive.
C11_UserTurnAtSubmission ==
  /\ [] \A j, k \in 1..Len(UserMessages) :
          j < k => UserMessages[j].id < UserMessages[k].id
  /\ [][ IF Len(calls') = Len(calls) + 1 /\ ~calls'[Len(calls')].auto
           THEN /\ calls'[Len(calls')].pc = "fetch"
                /\ messages' = Append(messages,
                       NewMessage(nextId, calls'[Len(calls')].message, "user", "null"))
                /\ \A m \in Msgs : m.id < nextId
           ELSE UserMessages' = UserMessages \/ UserMessages' = <<>> ]_vars

\* Two submissions, the second answered while the request of the first is still
\* pending: both user messages stand before the answer, in submission order.
C11_Witness ==
  /\ Len(calls) = 2 /\ ~calls[1].auto /\ ~calls[2].auto
  /\ calls[1].pc = "fetch" /\ calls[2].pc = "done"
  /\ Len(messages) = 3
  /\ IsUser(messages[1]) /\ IsUser(messages[2]) /\ messages[3].id = calls[2].msgId

\* The ranges of a latitude and of a longitude.
ValidLatitude(c) == ~c.nan /\ c.deg >= -90 /\ c.deg <= 90
ValidLongitude(c) == ~c.nan /\ c.deg >= -180 /\ c.deg <= 180

\* C12: a spatial query with a latitude outside [-90, 90], a longitude outside
\* [-180, 180] or a coordinate that is not a number is rejected: no request is
\* issued for it, so the coordinates of a spatial request in flight are valid.
C12_SpatialValidation ==
  (advReq # <<>> /\ advReq[1] = "spatial") =>
     ValidLatitude(advReq[2][1]) /\ ValidLongitude(advReq[2][2])

\* The rows of the table in the last spatial answer, and the places of its lines.
IsRow(line) == line.kind = "row"
ListedRows == SelectSeq(chatResponse, IsRow)
LinesOf(kind) == { k \in 1..Len(chatResponse) : chatResponse[k].kind = kind }

\* C13: the table of a spatial answer lists the first 5 floats of the returned
\* sequence, in returned order, and no more; the '...' row and the 'Showing top
\* 5 results' note stand after the rows if and only if more than 5 floats were
\* returned.
C13_TruncatedIffMoreThanFive ==
  chatResponse # <<>> =>
    LET floats == queryResults.floats
    IN  /\ Len(ListedRows) = (IF Len(floats) < 5 THEN Len(floats) ELSE 5)
        /\ \A k \in 1..Len(ListedRows) :
              /\ ListedRows[k].float_id = floats[k].float_id
              /\ ListedRows[k].distance_km = floats[k].distance_km
        /\ (LinesOf("...") # {}) <=> (Len(floats) > 5)
        /\ (LinesOf("showing") # {}) <=> (Len(floats) > 5)
        /\ \A r \in LinesOf("row") : \A t \in LinesOf("...") \cup LinesOf("showing") :
              r < t

\* Six floats were returned: five are listed and the answer is marked; the
\* answer is being revealed in the chat.
C13_Witness ==
  /\ chatResponse # <<>>
  /\ Len(queryResults.floats) = 6
  /\ Len(ListedRows) = 5 /\ LinesOf("...") # {}
  /\ \E m \in Msgs : m.source = "spatial"

\* C14: the floats listed as nearest, in the table in the chat and in the
\* 'Nearest Floats' list of the panel, stand in ascending distance_km order, and
\* both lists begin with the nearest of the floats returned.
C14_AscendingDistance ==
  chatResponse # <<>> =>
    /\ \A j, k \in 1..Len(ListedRows) :
          j < k => ListedRows[j].distance_km <= ListedRows[k].distance_km
    /\ \A j, k \in 1..Len(NearestList(queryResults)) :
          j < k => NearestList(queryResults)[j].distance_km
                     <= NearestList(queryResults)[k].distance_km
    /\ \A f \in { queryResults.floats[k] : k \in 1..Len(queryResults.floats) } :
          /\ ListedRows[1].distance_km <= f.distance_km
          /\ NearestList(queryResults)[1].distance_km <= f.distance_km

\* More floats were returned than are listed, at different distances, and the
\* farthest listed is farther than the first.
C14_Witness ==
  /\ chatResponse # <<>>
  /\ Len(queryResults.floats) > 5
  /\ ListedRows[1].distance_km < ListedRows[5].distance_km
  /\ NearestList(queryResults)[1].distance_km < NearestList(queryResults)[3].distance_km

\* C15: the numbers of a BGC answer are the values received: each number
\* written (in hundredths) equals the value of the analysis (in thousandths).
C15_ValuesVerbatim ==
  chatResponse # <<>> =>
    \A k \in 1..Len(chatResponse) :
       /\ chatResponse[k].kind = "range" =>
            /\ chatResponse[k].min * 10 = queryResults.analysis.overall_min
            /\ chatResponse[k].max * 10 = queryResults.analysis.overall_max
       /\ chatResponse[k].kind = "mean" =>
            /\ chatResponse[k].min * 10 = queryResults.analysis.mean_min
            /\ chatResponse[k].max * 10 = queryResults.analysis.mean_max

\* C16: while some message of the chat is streaming, isTyping is true.
C16_StreamingImpliesTyping ==
  (\E m \in Msgs : m.streaming) => isTyping

\* C17: the timer of a file whose upload succeeded, when it fires, issues
\* exactly one automatic analysis query to the backend.
C17_OneAutoQueryPerUpload ==
  [][ \A t \in upTimers :
        t \notin upTimers' =>
          /\ Len(calls') = Len(calls) + 1
          /\ calls'[Len(calls')].auto
          /\ calls'[Len(calls')].message = AutoQueryText
          /\ calls'[Len(calls')].pc = "fetch" ]_vars

\* The space-separated words of a text: one more than its spaces.
WordCount(text) == Cardinality(Spaces(text)) + 1

\* The ids a stream can have.
StreamIds == 1..MaxIds

\* C18: a stream reveals one word of its text in each of its steps, no step
\* of another stream or of the user moves it, and it ends in the step after its
\* last word, leaving its message not streaming; with the timers firing, every
\* stream that was started ends.
C18_StreamFinite ==
  /\ [][ \A s \in streams :
           \/ \E t \in streams' :
                 /\ t.id = s.id
                 /\ t.i = s.i \/ (t.i = s.i + 1 /\ t.i <= WordCount(s.text))
           \/ /\ \A t \in streams' : t.id # s.id
              /\ s.i = WordCount(s.text)
              /\ \A n \in WithId(s.id)' : ~n.streaming ]_vars
  /\ \A id \in StreamIds :
        (\E s \in streams : s.id = id)
          ~> ( /\ \A s \in streams : s.id # id
               /\ \A m \in WithId(id) : ~m.streaming )

\* The answer of three words has been revealed to its end: its call is done and
\* its message holds the whole text, not streaming.
C18_Witness ==
  \E c \in CallIds :
     /\ calls[c].pc = "done"
     /\ \E m \in WithId(calls[c].msgId) :
           m.content = <<"a", Sp, Sp, "b">> /\ ~m.streaming

\* The message clearChat adds.
IsCleared(m) == m.type = "system" /\ m.content = ChatClearedText

\* C19: the step of clearChat leaves the 'Chat Cleared' message as the only
\* message and chatHistory empty; afterwards that message stays the first,
\* followed only by newer messages, and the message of a stream that was in
\* progress at clearChat is never in the chat again, whatever steps the stream
\* still takes.
C19_ClearChatRemoves ==
  /\ [][ (\E m \in Msgs' : IsCleared(m) /\ m.id = nextId) =>
           /\ Len(messages') = 1
           /\ IsCleared(messages'[1])
           /\ chatHistory' = <<>> ]_vars
  /\ [] \A k \in 1..Len(messages) :
          IsCleared(messages[k]) =>
            /\ k = 1
            /\ \A j \in 2..Len(messages) : messages[j].id > messages[1].id
  /\ [] \A p \in cancelledAt : WithId(p[1]) = {}

\* A stream has revealed a word after clearChat removed its message: the chat
\* still holds the 'Chat Cleared' message only.
C19_Witness ==
  /\ Len(messages) = 1 /\ IsCleared(messages[1])
  /\ chatHistory = <<>>
  /\ \E s \in streams : \E p \in cancelledAt : p[1] = s.id /\ s.i > p[2]

StatusStep == issued' # issued \/ polls' # polls

\* C21: a step of fetchSystemStatus, be it the issue of the request, its
\* response or its failure, leaves messages, chatHistory, uploadedFiles,
\* isTyping and showSpinner as they were.
C21_StatusRefreshFrame ==
  [][ StatusStep =>
        UNCHANGED << messages, chatHistory, uploadedFiles, isTyping,
                     showSpinner >> ]_vars

\* The status was refreshed after an upload, the automatic query of the file
\* waiting for its answer: the refresh timer has fired, every status request
\* was answered, the last with reported connections, and the spinner, the
\* upload message and the file are still there.
C21_Witness ==
  /\ statusFrom > 0 /\ polls = {} /\ statusTimers = 0
  /\ connectionStatus = ConnectionsReported
  /\ showSpinner
  /\ \E k \in 1..Len(uploadedFiles) : uploadedFiles[k].status = "success"
  /\ \E m \in Msgs : m.content = UploadCompleteText
  /\ \E c \in CallIds : calls[c].auto

\* C22: once every status request has been answered, the response applied
\* last is that of the request issued last.
C22_LatestPollWins ==
  (issued > 0 /\ polls = {}) => statusFrom = issued

\* The status of the file at a position of uploadedFiles, "none" when there is
\* no such entry.
StatusAt(files, k) == IF k <= Len(files) THEN files[k].status ELSE "none"

IdsOf(sel) == { sel[k] : k \in 1..Len(sel) }

\* No id is twice in a selection.
Distinct(sel) == \A j, k \in 1..Len(sel) : sel[j] = sel[k] => j = k

\* The selection keeps the ids of prev other than id, in their order.
IsRemoval(prev, id, sel) ==
  /\ IdsOf(sel) = IdsOf(prev) \ { id }
  /\ Len(sel) = Len(prev) - 1
  /\ \A j, k \in 1..Len(sel) :
        j < k => \E a, b \in 1..Len(prev) :
                    a < b /\ prev[a] = sel[j] /\ prev[b] = sel[k]

\* C24: selectedFloats never has more than 5 entries nor an id twice, and
\* since the last call of handleFloatSelection it is the selection the call
\* found without the id when the id was selected, that selection unchanged
\* when 5 other ids were selected, and that selection followed by the id
\* otherwise.
C24_SelectionLimit ==
  /\ Len(selectedFloats) <= 5
  /\ Distinct(selectedFloats)
  /\ clicked # <<>> =>
        LET id == clicked[1]
            prev == clicked[2]
        IN  /\ id \in IdsOf(prev) => IsRemoval(prev, id, selectedFloats)
            /\ (id \notin IdsOf(prev) /\ Len(prev) = 5) => selectedFloats = prev
            /\ (id \notin IdsOf(prev) /\ Len(prev) < 5) =>
                  /\ Len(selectedFloats) = Len(prev) + 1
                  /\ selectedFloats[Len(selectedFloats)] = id
                  /\ \A k \in 1..Len(prev) : selectedFloats[k] = prev[k]

\* A sixth float was clicked while five were selected, the third of them
\* having been removed and selected again before: the selection is the five.
C24_Witness ==
  /\ Len(selectedFloats) = 5
  /\ clicked # <<>>
  /\ clicked[1] \notin IdsOf(selectedFloats)
  /\ clicked[2] = selectedFloats
  /\ selectedFloats = << 1, 2, 4, 5, 3 >>

\* The requests for the map among the requests in flight.
MapRequests(reqs) == { k \in 1..Len(reqs) : reqs[k].kind = "map" }

\* C25: the step in which loadMapData ends, the response to its request
\* applied or not, leaves the depth-time and the comparison data of
\* visualizationData as they were.
C25_MapReloadKeepsPlots ==
  [][ Cardinality(MapRequests(vizReqs')) < Cardinality(MapRequests(vizReqs)) =>
        /\ visualizationData'.depthTime = visualizationData.depthTime
        /\ visualizationData'.comparison = visualizationData.comparison ]_vars

\* The depth tab of the open panel shows a plot of depth-time data.
DepthTimeDisplayed == isVisible /\ visualizationData.depthTime # Absent

\* C26: whenever depth-time data is displayed, selectedParameter is the
\* parameter the displayed data was requested for.
C26_TitleMatchesData ==
  DepthTimeDisplayed =>
    visualizationData.depthTime[1].parameter = selectedParameter

====
